---- MODULE Spec2Model ----
(***************************************************************************)
(* State-machine model of src/main/flight/pid.c (Triflight / Cleanflight   *)
(* rate controller).                                                       *)
(*                                                                         *)
(* Numbers.  The C code computes in binary32.  The model computes in exact *)
(* integers on fixed-point units, so that every product of the code is an  *)
(* exact product in the model:                                             *)
(*   rates (setpoints, gyro, expectedGyroError)   1/RateOne deg/s          *)
(*   angles                                       1/AngleOne deg           *)
(*   stick deflection                             1/DeflOne                *)
(*   tpaFactor                                    1/TpaOne                 *)
(*   motorMixRange, dynKi                         1/MixOne                 *)
(*   dT                                           microseconds             *)
(*   Kp, Ki, Kd                                   PTERM/ITERM/DTERM_SCALE  *)
(*   levelGain, horizonGain                       1/10                     *)
(* The quotients of pidInitConfig whose divisor can be zero are kept as    *)
(* tagged values (finite / +infinity / NaN), as IEEE-754 produces them.    *)
(***************************************************************************)
EXTENDS Integers, Sequences, FiniteSets, TLC

RateOne == 200
AngleOne == 10
DeflOne == 2
TpaOne == 2
MixOne == 4

FD_ROLL == 0
FD_PITCH == 1
FD_YAW == 2
PIDLEVEL == 7

Axes == FD_ROLL..FD_YAW
RollPitch == FD_ROLL..FD_PITCH

ABS(x) == IF x < 0 THEN -x ELSE x
MIN(a, b) == IF a < b THEN a ELSE b
MAX(a, b) == IF a > b THEN a ELSE b
constrainf(amt, low, high) == IF amt < low THEN low ELSE IF amt > high THEN high ELSE amt

Zero3 == [a \in Axes |-> 0]
Zero2 == [a \in RollPitch |-> 0]

(***************************************************************************)
(* binary32 values that need not be finite.                                *)
(***************************************************************************)
Fin(x) == [k |-> "fin", v |-> x]
PosInf == [k |-> "inf", v |-> 0]
NaN == [k |-> "nan", v |-> 0]
IsFinite(f) == f.k = "fin"

\* num / den for num > 0, den >= 0: the float quotient; x / 0.0f is +infinity.
\* The profiles of the model make every finite quotient exact.
FDiv(num, den) == IF den = 0 THEN PosInf ELSE Fin(num \div den)

\* n * f for an integer n >= 0: 0 * inf is NaN.
FScale(n, f) ==
    IF f.k = "fin" THEN Fin(n * f.v)
    ELSE IF f.k = "inf" THEN (IF n = 0 THEN NaN ELSE PosInf)
    ELSE NaN

\* MIN(f, one) with the macro's "(a) < (b) ? (a) : (b)": any comparison with
\* NaN is false and +inf < one is false, so both give `one`.
FMin(f, one) == IF f.k = "fin" /\ f.v < one THEN f.v ELSE one

(***************************************************************************)
(* pidProfile_t: the fields pid.c reads.                                   *)
(***************************************************************************)
FILTER_PT1 == "FILTER_PT1"
FILTER_BIQUAD == "FILTER_BIQUAD"
FILTER_FIR == "FILTER_FIR"

BaseProfile ==
    [ P8 |-> (FD_ROLL :> 1 @@ FD_PITCH :> 1 @@ FD_YAW :> 1 @@ PIDLEVEL :> 10),
      I8 |-> (FD_ROLL :> 1 @@ FD_PITCH :> 1 @@ FD_YAW :> 1 @@ PIDLEVEL :> 10),
      D8 |-> (FD_ROLL :> 1 @@ FD_PITCH :> 1 @@ FD_YAW :> 1 @@ PIDLEVEL :> 50),
      dtermSetpointWeight |-> 127,
      setpointRelaxRatio |-> 100,
      rateAccelLimit |-> 0,
      yawRateAccelLimit |-> 0,
      itermWindupPointPercent |-> 50,
      dterm_notch_hz |-> 0,
      dterm_notch_cutoff |-> 0,
      dterm_lpf_hz |-> 0,
      dterm_filter_type |-> FILTER_PT1,
      yaw_lpf_hz |-> 0,
      levelSensitivity |-> 10,
      levelAngleLimit |-> 5 ]


(***************************************************************************)
(* Program state: the file-scope and function-scope statics of pid.c.      *)
(***************************************************************************)
VARIABLES
    targetPidLooptime, dT, pidStabilisationEnabled, disableTPAForYaw,
    axisPID_P, axisPID_I, axisPID_D, expectedGyroError, itermAccelerator,
    dtermNotchFilterApplyFn, dtermFilterNotch, dtermLpfApplyFn, dtermFilterLpf,
    ptermYawFilterApplyFn, ptermYawFilter,
    biquadFilterNotch, pt1Filter, biquadFilter, denoisingFilter, pt1FilterYaw,
    Kp, Ki, Kd, maxVelocity, relaxFactor, dtermSetpointWeight,
    levelGain, horizonGain, horizonTransition, ITermWindupPoint, ITermWindupPointInv,
    previousSetpoint, previousRateError,
    \* collaborators: the profile the caller's pointer refers to, the mixer's topology flag
    pidProfile, triMixer,
    \* history: ticks run, the last tick's
    \* inputs and intermediate values, what the derived state was built from,
    \* and the controller state of a reference run that is never disabled
    ticks, tick, built, twin

flagVars == <<targetPidLooptime, dT, pidStabilisationEnabled, expectedGyroError, itermAccelerator>>
gainVars == <<Kp, Ki, Kd, maxVelocity, relaxFactor, dtermSetpointWeight, levelGain,
              horizonGain, horizonTransition, ITermWindupPoint, ITermWindupPointInv,
              disableTPAForYaw>>
selVars == <<dtermNotchFilterApplyFn, dtermFilterNotch, dtermLpfApplyFn, dtermFilterLpf,
             ptermYawFilterApplyFn, ptermYawFilter>>
objVars == <<biquadFilterNotch, pt1Filter, biquadFilter, denoisingFilter, pt1FilterYaw>>
outVars == <<axisPID_P, axisPID_I, axisPID_D>>
prevVars == <<previousSetpoint, previousRateError>>
envVars == <<pidProfile, triMixer>>
histVars == <<ticks, tick, built>>

vars == <<flagVars, gainVars, selVars, objVars, outVars, prevVars, envVars,
          histVars, twin>>

(***************************************************************************)
(* Filter primitives (common/filter.c).  A pointer is the static object it *)
(* refers to, or NULL.                                                     *)
(***************************************************************************)
NULL == [obj |-> "NULL", idx |-> 0]
AddrOf(name, i) == [obj |-> name, idx |-> i]

Pt1Zero == [k8 |-> 0, state |-> 0]
BiquadZero == [type |-> "zero", hz |-> 0, x1 |-> 0, x2 |-> 0, y1 |-> 0, y2 |-> 0]
FirZero == [hz |-> 0, x1 |-> 0, x2 |-> 0]

\* k = dT / (RC + dT) with RC = 1 / (2 pi f_cut), in eighths; dT in microseconds.
pt1FilterInit(f_cut, period) ==
    [k8 |-> (8 * period * f_cut) \div (159155 + period * f_cut), state |-> 0]

pt1FilterApply(f, input) ==
    LET s == f.state + ((input - f.state) * f.k8) \div 8
    IN  [out |-> s, obj |-> [f EXCEPT !.state = s]]

biquadFilterInit(f_cut, type) ==
    [type |-> type, hz |-> f_cut, x1 |-> 0, x2 |-> 0, y1 |-> 0, y2 |-> 0]

\* second-order IIR with unity gain at DC; a zero-filled object has all
\* coefficients zero and returns 0.
biquadFilterApply(f, input) ==
    LET y == CASE f.type = "FILTER_LPF" -> (input + f.x1 + f.y1 + f.y2) \div 4
               [] f.type = "FILTER_NOTCH" -> (input + f.x2) \div 2
               [] OTHER -> 0
    IN  [out |-> y, obj |-> [f EXCEPT !.x2 = f.x1, !.x1 = input, !.y2 = f.y1, !.y1 = y]]

firFilterDenoiseInit(f_cut) == [hz |-> f_cut, x1 |-> 0, x2 |-> 0]

\* moving-window average
firFilterDenoiseUpdate(f, input) ==
    LET y == IF f.hz = 0 THEN 0 ELSE (input + f.x1 + f.x2) \div 3
    IN  [out |-> y, obj |-> [f EXCEPT !.x2 = f.x1, !.x1 = input]]

(***************************************************************************)
(* pidFrequencyNyquist = (uint32_t)((1.0f / dT) / 2) in binary32, for the  *)
(* loop times 125, 250, 500, 625, 1000, 2000 us.  (float)t * 0.000001f     *)
(* rounds above t/10^6 for the loop times of F32Above, so the quotient     *)
(* lands just below the integer 10^6/(2t) and the conversion truncates it: *)
(* 1000 us gives 499.99997 -> 499, while 625 us gives 800.0 -> 800.        *)
(***************************************************************************)
F32Above == {125, 250, 500, 1000, 2000}
NyquistExact(period) == (1000000 \div period) \div 2
pidFrequencyNyquist(period) ==
    IF period \in F32Above THEN NyquistExact(period) - 1 ELSE NyquistExact(period)

(***************************************************************************)
(* The controller state one run owns: outputs, previous values, filter     *)
(* objects.                                                                *)
(***************************************************************************)
Ctl == [ axisPID_P |-> axisPID_P, axisPID_I |-> axisPID_I, axisPID_D |-> axisPID_D,
         previousSetpoint |-> previousSetpoint, previousRateError |-> previousRateError,
         biquadFilterNotch |-> biquadFilterNotch, pt1Filter |-> pt1Filter,
         biquadFilter |-> biquadFilter, denoisingFilter |-> denoisingFilter,
         pt1FilterYaw |-> pt1FilterYaw ]

CtlZero == [ axisPID_P |-> Zero3, axisPID_I |-> Zero3, axisPID_D |-> Zero3,
             previousSetpoint |-> Zero3, previousRateError |-> Zero2,
             biquadFilterNotch |-> [a \in RollPitch |-> BiquadZero],
             pt1Filter |-> [a \in RollPitch |-> Pt1Zero],
             biquadFilter |-> [a \in RollPitch |-> BiquadZero],
             denoisingFilter |-> [a \in RollPitch |-> FirZero],
             pt1FilterYaw |-> Pt1Zero ]

SetCtl(c) ==
    /\ axisPID_P' = c.axisPID_P
    /\ axisPID_I' = c.axisPID_I
    /\ axisPID_D' = c.axisPID_D
    /\ previousSetpoint' = c.previousSetpoint
    /\ previousRateError' = c.previousRateError
    /\ biquadFilterNotch' = c.biquadFilterNotch
    /\ pt1Filter' = c.pt1Filter
    /\ biquadFilter' = c.biquadFilter
    /\ denoisingFilter' = c.denoisingFilter
    /\ pt1FilterYaw' = c.pt1FilterYaw

SnapZero ==
    [ setpointRate |-> Zero3, gyroADCf |-> Zero3, tpaFactor |-> TpaOne, motorMixRange |-> 0,
      outputSaturated |-> [a \in Axes |-> FALSE], flightMode |-> {},
      rcDeflection |-> Zero3, attitude |-> Zero2, angleTrim |-> Zero2 ]

BuiltNone == [ configDT |-> 0, configProfile |-> BaseProfile, configTri |-> FALSE,
               filtersDT |-> 0, filtersProfile |-> BaseProfile,
               config |-> FALSE, filters |-> FALSE ]

TickNone ==
    [ in |-> SnapZero, enabled |-> FALSE, tri |-> FALSE, prevEnabled |-> FALSE,
      dT |-> 0, maxVelocity |-> Zero3,
      raw |-> Zero3, shaped |-> Zero3, prevShaped |-> Zero3, prevStored |-> Zero3,
      setpoint |-> Zero3, errorRate |-> Zero3, ITerm |-> Zero3, ITermNew |-> Zero3,
      committed |-> Zero3, prevCommitted |-> Zero3,
      fullP |-> Zero3, fullD |-> Zero3, dAccess |-> {},
      pScaled |-> Zero3, disableTPA |-> FALSE,
      prevIn |-> SnapZero, prevErrorRate |-> Zero3,
      prevITerm |-> Zero3, prevITermNew |-> Zero3,
      built |-> BuiltNone,
      fns |-> [notch |-> "NULL", lpf |-> "NULL", yaw |-> "NULL"] ]

InitWith(twinOn, profile) ==
    /\ targetPidLooptime = 0
    /\ dT = 0
    /\ pidStabilisationEnabled = FALSE
    /\ disableTPAForYaw = FALSE
    /\ axisPID_P = Zero3 /\ axisPID_I = Zero3 /\ axisPID_D = Zero3
    /\ expectedGyroError = Zero3
    /\ itermAccelerator = 1
    /\ dtermNotchFilterApplyFn = "NULL" /\ dtermLpfApplyFn = "NULL"
    /\ ptermYawFilterApplyFn = "NULL"
    /\ dtermFilterNotch = [a \in RollPitch |-> NULL]
    /\ dtermFilterLpf = [a \in RollPitch |-> NULL]
    /\ ptermYawFilter = NULL
    /\ biquadFilterNotch = CtlZero.biquadFilterNotch
    /\ pt1Filter = CtlZero.pt1Filter
    /\ biquadFilter = CtlZero.biquadFilter
    /\ denoisingFilter = CtlZero.denoisingFilter
    /\ pt1FilterYaw = Pt1Zero
    /\ Kp = Zero3 /\ Ki = Zero3 /\ Kd = Zero3 /\ maxVelocity = Zero3
    /\ relaxFactor = Fin(0) /\ dtermSetpointWeight = 0
    /\ levelGain = 0 /\ horizonGain = 0 /\ horizonTransition = Fin(0)
    /\ ITermWindupPoint = 0 /\ ITermWindupPointInv = Fin(0)
    /\ previousSetpoint = Zero3 /\ previousRateError = Zero2
    /\ pidProfile = profile
    /\ triMixer = FALSE
    /\ ticks = 0
    /\ tick = TickNone
    /\ built = BuiltNone
    /\ twin = [on |-> twinOn, c |-> CtlZero]



(***************************************************************************)
(* Setters and resets.                                                     *)
(***************************************************************************)
pidSetTargetLooptime(pidLooptime) ==
    /\ targetPidLooptime' = pidLooptime
    /\ dT' = pidLooptime
    /\ UNCHANGED <<pidStabilisationEnabled, expectedGyroError, itermAccelerator,
                   gainVars, selVars, objVars, outVars, prevVars, envVars, histVars, twin>>

pidResetErrorGyroState ==
    /\ axisPID_I' = [axis \in Axes |-> 0]
    /\ twin' = [twin EXCEPT !.c.axisPID_I = IF twin.on THEN Zero3 ELSE @]
    /\ UNCHANGED <<axisPID_P, axisPID_D, flagVars, gainVars, selVars, objVars, prevVars,
                   envVars, histVars>>

pidSetItermAccelerator(newItermAccelerator) ==
    /\ itermAccelerator' = newItermAccelerator
    /\ UNCHANGED <<targetPidLooptime, dT, pidStabilisationEnabled, expectedGyroError,
                   gainVars, selVars, objVars, outVars, prevVars, envVars, histVars, twin>>

\* the single-axis reset clearing every axis
pidResetErrorGyroAxisAll(axis) ==
    /\ axisPID_I' = [a \in Axes |-> 0]
    /\ twin' = [twin EXCEPT !.c.axisPID_I = IF twin.on THEN Zero3 ELSE @]
    /\ UNCHANGED <<axisPID_P, axisPID_D, flagVars, gainVars, selVars, objVars, prevVars,
                   envVars, histVars>>

pidResetErrorGyroAxis(axis) ==
    /\ axisPID_I' = [axisPID_I EXCEPT ![axis] = 0]
    /\ twin' = [twin EXCEPT !.c.axisPID_I[axis] = IF twin.on THEN 0 ELSE @]
    /\ UNCHANGED <<axisPID_P, axisPID_D, flagVars, gainVars, selVars, objVars, prevVars,
                   envVars, histVars>>

pidStabilisationState(pidControllerState) ==
    /\ pidStabilisationEnabled' = (pidControllerState = "PID_STABILISATION_ON")
    /\ UNCHANGED <<targetPidLooptime, dT, expectedGyroError, itermAccelerator,
                   gainVars, selVars, objVars, outVars, prevVars, envVars, histVars, twin>>

pidSetExpectedGyroError(axis, error) ==
    /\ expectedGyroError' = [expectedGyroError EXCEPT ![axis] = error]
    /\ UNCHANGED <<targetPidLooptime, dT, pidStabilisationEnabled, itermAccelerator,
                   gainVars, selVars, objVars, outVars, prevVars, envVars, histVars, twin>>

(***************************************************************************)
(* Collaborators: the configuration subsystem rewrites the profile, the    *)
(* mixer changes its topology (what triMixerInUse() returns).              *)
(***************************************************************************)
ProfileWrite(p) ==
    /\ p # pidProfile
    /\ pidProfile' = p
    /\ UNCHANGED <<triMixer, flagVars, gainVars, selVars, objVars, outVars, prevVars,
                   histVars, twin>>

MixerSetTri(b) ==
    /\ b # triMixer
    /\ triMixer' = b
    /\ UNCHANGED <<pidProfile, flagVars, gainVars, selVars, objVars, outVars, prevVars,
                   histVars, twin>>

(***************************************************************************)
(* pidInitFilters.  The caller sets the loop time first: with dT = 0 the   *)
(* conversion of 1/dT to uint32_t is undefined.                            *)
(***************************************************************************)
\* the notch decision with the comparison made inclusive
NotchSelectedInclusive(p, period) ==
    ~(p.dterm_notch_hz = 0 \/ p.dterm_notch_hz >= pidFrequencyNyquist(period))

NotchSelected(p, period) ==
    ~(p.dterm_notch_hz = 0 \/ p.dterm_notch_hz > pidFrequencyNyquist(period))

LpfSelected(p, period) ==
    ~(p.dterm_lpf_hz = 0 \/ p.dterm_lpf_hz > pidFrequencyNyquist(period))

YawLpfSelected(p, period) ==
    ~(p.yaw_lpf_hz = 0 \/ p.yaw_lpf_hz > pidFrequencyNyquist(period))

LpfType(p, period) ==
    IF LpfSelected(p, period) /\ p.dterm_filter_type \in {FILTER_PT1, FILTER_BIQUAD, FILTER_FIR}
    THEN p.dterm_filter_type ELSE "none"

\* pidInitFilters initialising the notch and the one-pole objects only
InitFilterObjectsPartial(c, p, period) ==
    [ c EXCEPT
        !.biquadFilterNotch = IF NotchSelected(p, period)
            THEN [axis \in RollPitch |-> biquadFilterInit(p.dterm_notch_hz, "FILTER_NOTCH")]
            ELSE @,
        !.pt1Filter = IF LpfType(p, period) = FILTER_PT1
            THEN [axis \in RollPitch |-> pt1FilterInit(p.dterm_lpf_hz, period)]
            ELSE @,
        !.pt1FilterYaw = IF YawLpfSelected(p, period)
            THEN pt1FilterInit(p.yaw_lpf_hz, period)
            ELSE @ ]

\* The filter objects of one run after pidInitFilters(p).
InitFilterObjects(c, p, period) ==
    [ c EXCEPT
        !.biquadFilterNotch = IF NotchSelected(p, period)
            THEN [axis \in RollPitch |-> biquadFilterInit(p.dterm_notch_hz, "FILTER_NOTCH")]
            ELSE @,
        !.pt1Filter = IF LpfType(p, period) = FILTER_PT1
            THEN [axis \in RollPitch |-> pt1FilterInit(p.dterm_lpf_hz, period)]
            ELSE @,
        !.biquadFilter = IF LpfType(p, period) = FILTER_BIQUAD
            THEN [axis \in RollPitch |-> biquadFilterInit(p.dterm_lpf_hz, "FILTER_LPF")]
            ELSE @,
        !.denoisingFilter = IF LpfType(p, period) = FILTER_FIR
            THEN [axis \in RollPitch |-> firFilterDenoiseInit(p.dterm_lpf_hz)]
            ELSE @,
        !.pt1FilterYaw = IF YawLpfSelected(p, period)
            THEN pt1FilterInit(p.yaw_lpf_hz, period)
            ELSE @ ]

pidInitFilters ==
    /\ dT > 0
    /\ dtermNotchFilterApplyFn' =
            IF NotchSelected(pidProfile, dT) THEN "biquadFilterApply" ELSE "nullFilterApply"
    /\ dtermFilterNotch' =
            IF NotchSelected(pidProfile, dT)
            THEN [axis \in RollPitch |-> AddrOf("biquadFilterNotch", axis)]
            ELSE dtermFilterNotch
    /\ dtermLpfApplyFn' =
            CASE LpfType(pidProfile, dT) = FILTER_PT1 -> "pt1FilterApply"
              [] LpfType(pidProfile, dT) = FILTER_BIQUAD -> "biquadFilterApply"
              [] LpfType(pidProfile, dT) = FILTER_FIR -> "firFilterDenoiseUpdate"
              [] OTHER -> "nullFilterApply"
    /\ dtermFilterLpf' =
            CASE LpfType(pidProfile, dT) = FILTER_PT1 ->
                    [axis \in RollPitch |-> AddrOf("pt1Filter", axis)]
              [] LpfType(pidProfile, dT) = FILTER_BIQUAD ->
                    [axis \in RollPitch |-> AddrOf("biquadFilter", axis)]
              [] LpfType(pidProfile, dT) = FILTER_FIR ->
                    [axis \in RollPitch |-> AddrOf("denoisingFilter", axis)]
              [] OTHER -> dtermFilterLpf
    /\ ptermYawFilterApplyFn' =
            IF YawLpfSelected(pidProfile, dT) THEN "pt1FilterApply" ELSE "nullFilterApply"
    /\ ptermYawFilter' =
            IF YawLpfSelected(pidProfile, dT) THEN AddrOf("pt1FilterYaw", 0) ELSE ptermYawFilter
    /\ LET c == InitFilterObjects(Ctl, pidProfile, dT)
       IN  /\ biquadFilterNotch' = c.biquadFilterNotch
           /\ pt1Filter' = c.pt1Filter
           /\ biquadFilter' = c.biquadFilter
           /\ denoisingFilter' = c.denoisingFilter
           /\ pt1FilterYaw' = c.pt1FilterYaw
    /\ twin' = [twin EXCEPT !.c = IF twin.on THEN InitFilterObjects(@, pidProfile, dT) ELSE @]
    /\ built' = [built EXCEPT !.filtersDT = dT, !.filtersProfile = pidProfile, !.filters = TRUE]
    /\ UNCHANGED <<flagVars, gainVars, outVars, prevVars, envVars, ticks, tick>>

(***************************************************************************)
(* pidInitConfig                                                           *)
(***************************************************************************)
\* maxVelocity without the loop period
MaxVelocityOfUnscaled(p, axis, period) ==
    RateOne * (IF axis = FD_YAW THEN p.yawRateAccelLimit ELSE p.rateAccelLimit)

\* lines 181-182: limit * 1000 * dT, in rate units per tick
MaxVelocityOf(p, axis, period) ==
    IF axis = FD_YAW
    THEN (RateOne * p.yawRateAccelLimit * 1000 * period) \div 1000000
    ELSE (RateOne * p.rateAccelLimit * 1000 * period) \div 1000000

pidInitConfig ==
    /\ Kp' = [axis \in Axes |-> pidProfile.P8[axis]]
    /\ Ki' = [axis \in Axes |-> pidProfile.I8[axis]]
    /\ Kd' = [axis \in Axes |-> pidProfile.D8[axis]]
    /\ dtermSetpointWeight' = pidProfile.dtermSetpointWeight \div 127
    /\ relaxFactor' = FDiv(100, pidProfile.setpointRelaxRatio)
    /\ levelGain' = pidProfile.P8[PIDLEVEL]
    /\ horizonGain' = pidProfile.I8[PIDLEVEL]
    /\ horizonTransition' = FDiv(100, pidProfile.D8[PIDLEVEL])
    /\ maxVelocity' = [axis \in Axes |-> MaxVelocityOf(pidProfile, axis, dT)]
    /\ ITermWindupPoint' = pidProfile.itermWindupPointPercent
    /\ ITermWindupPointInv' = FDiv(100, 100 - pidProfile.itermWindupPointPercent)
    /\ disableTPAForYaw' = triMixer
    /\ built' = [built EXCEPT !.configDT = dT, !.configProfile = pidProfile,
                              !.configTri = triMixer, !.config = TRUE]
    /\ UNCHANGED <<flagVars, selVars, objVars, outVars, prevVars, envVars, ticks, tick, twin>>


(***************************************************************************)
(* The per-tick path: setpoint shaping.                                    *)
(***************************************************************************)
getRcDeflectionAbs(in, axis) == ABS(in.rcDeflection[axis])

\* in 1/DeflOne; NaN when horizonTransition is +infinity and the sticks are centred
calcHorizonLevelStrength(in) ==
    IF horizonTransition.k = "inf" \/ (horizonTransition.k = "fin" /\ horizonTransition.v > 0)
    THEN LET mostDeflectedPos ==
                 MAX(getRcDeflectionAbs(in, FD_ROLL), getRcDeflectionAbs(in, FD_PITCH))
             product == FScale(mostDeflectedPos, horizonTransition)
         IN  CASE product.k = "fin" -> Fin(constrainf(DeflOne - product.v, 0, DeflOne))
               [] product.k = "inf" -> Fin(0)
               [] OTHER -> NaN
    ELSE Fin(0)

\* pidLevel with angle mode blending into the rate setpoint as horizon does
pidLevelAdditive(axis, in, currentPidSetpoint) ==
    LET stick == (AngleOne * pidProfile.levelSensitivity * in.rcDeflection[axis]) \div DeflOne
        limited == constrainf(stick, -(AngleOne * pidProfile.levelAngleLimit),
                              AngleOne * pidProfile.levelAngleLimit)
        errorAngle == limited - (in.attitude[axis] - in.angleTrim[axis])
    IN  IF "ANGLE_MODE" \in in.flightMode
        THEN currentPidSetpoint + (RateOne * errorAngle * levelGain) \div (AngleOne * 10)
        ELSE currentPidSetpoint
               + (RateOne * errorAngle * horizonGain * calcHorizonLevelStrength(in).v)
                   \div (AngleOne * 10 * DeflOne)

pidLevel(axis, in, currentPidSetpoint) ==
    LET stick == (AngleOne * pidProfile.levelSensitivity * in.rcDeflection[axis]) \div DeflOne
        limited == constrainf(stick, -(AngleOne * pidProfile.levelAngleLimit),
                              AngleOne * pidProfile.levelAngleLimit)
        errorAngle == limited - (in.attitude[axis] - in.angleTrim[axis])
    IN  IF "ANGLE_MODE" \in in.flightMode
        THEN (RateOne * errorAngle * levelGain) \div (AngleOne * 10)
        ELSE currentPidSetpoint
               + (RateOne * errorAngle * horizonGain * calcHorizonLevelStrength(in).v)
                   \div (AngleOne * 10 * DeflOne)

\* accelerationLimit with the limit applied upwards only
accelerationLimitUpOnly(prev, axis, currentPidSetpoint) ==
    LET currentVelocity == currentPidSetpoint - prev[axis]
    IN  IF currentVelocity > maxVelocity[axis]
        THEN prev[axis] + maxVelocity[axis]
        ELSE currentPidSetpoint

\* the value returned; the caller stores it in previousSetpoint[axis]
accelerationLimit(prev, axis, currentPidSetpoint) ==
    LET currentVelocity == currentPidSetpoint - prev[axis]
    IN  IF ABS(currentVelocity) > maxVelocity[axis]
        THEN IF currentVelocity > 0 THEN prev[axis] + maxVelocity[axis]
                                    ELSE prev[axis] - maxVelocity[axis]
        ELSE currentPidSetpoint

\* The model's numbers are finite: a tick whose horizon blend would be NaN is
\* outside its domain.
FiniteTick(in) ==
    ("HORIZON_MODE" \in in.flightMode /\ "ANGLE_MODE" \notin in.flightMode)
        => IsFinite(calcHorizonLevelStrength(in))

(***************************************************************************)
(* Filters through the selected function pointer and state pointer.        *)
(***************************************************************************)
Deref(c, ptr) == IF ptr.obj = "pt1FilterYaw" THEN c.pt1FilterYaw ELSE c[ptr.obj][ptr.idx]

Store(c, ptr, o) ==
    IF ptr.obj = "pt1FilterYaw" THEN [c EXCEPT !.pt1FilterYaw = o]
    ELSE [c EXCEPT ![ptr.obj][ptr.idx] = o]

Applied(fn, f, input) ==
    CASE fn = "pt1FilterApply" -> pt1FilterApply(f, input)
      [] fn = "biquadFilterApply" -> biquadFilterApply(f, input)
      [] fn = "firFilterDenoiseUpdate" -> firFilterDenoiseUpdate(f, input)
      [] OTHER -> [out |-> input, obj |-> f]

\* fn(ptr, input) on the run state c: the value returned and the run state after
ApplyFn(fn, c, ptr, input) ==
    IF fn = "nullFilterApply" THEN [out |-> input, c |-> c]
    ELSE [out |-> Applied(fn, Deref(c, ptr), input).out,
          c |-> Store(c, ptr, Applied(fn, Deref(c, ptr), input).obj)]

(***************************************************************************)
(* Reads and calls past the end of the two-element arrays                  *)
(* previousRateError, dtermFilterNotch, dtermFilterLpf (axis = FD_YAW) are *)
(* undefined: the value read, and what a filter called on such a pointer   *)
(* returns, is any value; the store lands outside the array.               *)
(***************************************************************************)
UbNone == [rateError |-> 0, notch |-> 0, lpf |-> 0]

(***************************************************************************)
(* One iteration of the axis loop of pidController, stage by stage.  A     *)
(* stage maps k to k: k.c is the run state, the other fields keep the      *)
(* iteration's intermediate values per axis.                               *)
(***************************************************************************)
Start(c) ==
    [ c |-> c, raw |-> Zero3, shaped |-> Zero3, setpoint |-> Zero3, errorRate |-> Zero3,
      ITerm |-> Zero3, ITermNew |-> Zero3, committed |-> Zero3,
      pScaled |-> Zero3, fullP |-> Zero3, fullD |-> Zero3, dAccess |-> {} ]

\* lines 243-246
SetpointStage(k, axis, in) ==
    IF maxVelocity[axis] # 0
    THEN [k EXCEPT !.raw[axis] = in.setpointRate[axis],
                   !.shaped[axis] =
                       accelerationLimit(k.c.previousSetpoint, axis, in.setpointRate[axis]),
                   !.c.previousSetpoint[axis] =
                       accelerationLimit(k.c.previousSetpoint, axis, in.setpointRate[axis])]
    ELSE [k EXCEPT !.raw[axis] = in.setpointRate[axis],
                   !.shaped[axis] = in.setpointRate[axis]]

\* lines 248-251
LevelStage(k, axis, in) ==
    [k EXCEPT !.setpoint[axis] =
        IF ("ANGLE_MODE" \in in.flightMode \/ "HORIZON_MODE" \in in.flightMode)
           /\ axis # FD_YAW
        THEN pidLevel(axis, in, k.shaped[axis]) ELSE k.shaped[axis]]

\* lines 253-260
ErrorStage(k, axis, in) ==
    [k EXCEPT !.errorRate[axis] =
        k.setpoint[axis] - in.gyroADCf[axis] + expectedGyroError[axis]]

\* lines 263-273: Kp * errorRate with the throttle attenuation
PTermScaled(k, axis, in) ==
    IF axis = FD_YAW /\ disableTPAForYaw
    THEN Kp[axis] * k.errorRate[axis] * TpaOne
    ELSE Kp[axis] * k.errorRate[axis] * in.tpaFactor

PStore(k, axis, r, scaled) ==
    [k EXCEPT !.c = [r.c EXCEPT !.axisPID_P[axis] = r.out], !.pScaled[axis] = scaled]

PStage(k, axis, in) ==
    IF axis = FD_YAW
    THEN PStore(k, axis,
                ApplyFn(ptermYawFilterApplyFn, k.c, ptermYawFilter, PTermScaled(k, axis, in)),
                PTermScaled(k, axis, in))
    ELSE [k EXCEPT !.c.axisPID_P[axis] = PTermScaled(k, axis, in),
                   !.pScaled[axis] = PTermScaled(k, axis, in)]

\* line 239
dynKi(in) == FMin(FScale(MixOne - in.motorMixRange, ITermWindupPointInv), MixOne)

\* the integral step without the saturation test
ITermCommitAlways(ITerm, ITermNew, outputSaturated) == ITermNew

\* lines 279-282: the value axisPID_I[axis] holds after the integral step
ITermCommit(ITerm, ITermNew, outputSaturated) ==
    IF outputSaturated = FALSE \/ ABS(ITermNew) < ABS(ITerm) THEN ITermNew ELSE ITerm

IStore(k, axis, ITerm, ITermNew, outputSaturated) ==
    [k EXCEPT !.ITerm[axis] = ITerm,
              !.ITermNew[axis] = ITermNew,
              !.committed[axis] = ITermCommit(ITerm, ITermNew, outputSaturated),
              !.c.axisPID_I[axis] = ITermCommit(ITerm, ITermNew, outputSaturated)]

\* the integral step with the candidate clamped to a fixed range
IStageClamped(k, axis, in) ==
    IStore(k, axis, k.c.axisPID_I[axis],
           constrainf(k.c.axisPID_I[axis]
                         + Ki[axis] * k.errorRate[axis] * dT * dynKi(in) * itermAccelerator,
                      -2000000, 2000000),
           in.outputSaturated[axis])

\* lines 275-282
IStage(k, axis, in) ==
    IStore(k, axis, k.c.axisPID_I[axis],
           k.c.axisPID_I[axis]
               + Ki[axis] * k.errorRate[axis] * dT * dynKi(in) * itermAccelerator,
           in.outputSaturated[axis])

\* the derivative decision taken from the flag captured by pidInitConfig
DtermComputedAtConfig(axis) == (axis # FD_YAW) \/ disableTPAForYaw

\* line 285
DtermComputed(axis) == (axis # FD_YAW) \/ triMixer

\* lines 286-290: dynC in 1/DeflOne, rD in 1/(RateOne * DeflOne)
RateErrorD(k, axis, in) ==
    dtermSetpointWeight
        * (IF pidProfile.setpointRelaxRatio < 100
           THEN FMin(FScale(getRcDeflectionAbs(in, axis), relaxFactor), DeflOne)
           ELSE DeflOne)
        * k.setpoint[axis]
      - DeflOne * in.gyroADCf[axis]

\* lines 292-295, with previousRateError[axis] read as `previous`
DeltaStore(k, axis, in, rD, previous) ==
    [k EXCEPT !.c.previousRateError =
                  IF axis \in DOMAIN @ THEN [@ EXCEPT ![axis] = rD] ELSE @,
              !.c.axisPID_D[axis] =
                  Kd[axis] * ((rD - previous) * (1000000 \div dT)) * in.tpaFactor,
              !.dAccess = @ \cup {axis}]

DeltaStage(k, axis, in, ub) ==
    DeltaStore(k, axis, in, RateErrorD(k, axis, in),
               IF axis \in DOMAIN k.c.previousRateError
               THEN k.c.previousRateError[axis] ELSE ub.rateError)

DStore(k, axis, r) == [k EXCEPT !.c = [r.c EXCEPT !.axisPID_D[axis] = r.out]]

\* line 299
NotchStage(k, axis, ub) ==
    IF axis \in DOMAIN dtermFilterNotch
    THEN DStore(k, axis, ApplyFn(dtermNotchFilterApplyFn, k.c, dtermFilterNotch[axis],
                                 k.c.axisPID_D[axis]))
    ELSE IF dtermNotchFilterApplyFn = "nullFilterApply" THEN k
    ELSE [k EXCEPT !.c.axisPID_D[axis] = ub.notch]

\* line 300
LpfStage(k, axis, ub) ==
    IF axis \in DOMAIN dtermFilterLpf
    THEN DStore(k, axis, ApplyFn(dtermLpfApplyFn, k.c, dtermFilterLpf[axis],
                                 k.c.axisPID_D[axis]))
    ELSE IF dtermLpfApplyFn = "nullFilterApply" THEN k
    ELSE [k EXCEPT !.c.axisPID_D[axis] = ub.lpf]

\* lines 284-301
DStage(k, axis, in, ub) ==
    IF DtermComputed(axis)
    THEN LpfStage(NotchStage(DeltaStage(k, axis, in, ub), axis, ub), axis, ub)
    ELSE k

\* the gate leaving the integrator alone
GateStageKeepI(k, axis, enabled) ==
    [k EXCEPT !.fullP[axis] = k.c.axisPID_P[axis],
              !.fullD[axis] = k.c.axisPID_D[axis],
              !.c.axisPID_P[axis] = IF ~enabled THEN 0 ELSE @,
              !.c.axisPID_D[axis] = IF ~enabled THEN 0 ELSE @]

\* the gate forgetting the derivative output
GateStageKeepD(k, axis, enabled) ==
    [k EXCEPT !.fullP[axis] = k.c.axisPID_P[axis],
              !.fullD[axis] = k.c.axisPID_D[axis],
              !.c.axisPID_P[axis] = IF ~enabled THEN 0 ELSE @,
              !.c.axisPID_I[axis] = IF ~enabled THEN 0 ELSE @]

\* lines 303-308; fullP and fullD keep what the computation left in the outputs
GateStage(k, axis, enabled) ==
    [k EXCEPT !.fullP[axis] = k.c.axisPID_P[axis],
              !.fullD[axis] = k.c.axisPID_D[axis],
              !.c.axisPID_P[axis] = IF ~enabled THEN 0 ELSE @,
              !.c.axisPID_I[axis] = IF ~enabled THEN 0 ELSE @,
              !.c.axisPID_D[axis] = IF ~enabled THEN 0 ELSE @]

AxisStep(k, axis, in, enabled, ub) ==
    GateStage(
        DStage(
            IStage(
                PStage(
                    ErrorStage(
                        LevelStage(
                            SetpointStage(k, axis, in),
                            axis, in),
                        axis, in),
                    axis, in),
                axis, in),
            axis, in, ub),
        axis, enabled)

\* the axis loop, FD_ROLL to FD_YAW
ControllerTick(c, in, enabled, ub) ==
    AxisStep(AxisStep(AxisStep(Start(c), FD_ROLL, in, enabled, ub),
                      FD_PITCH, in, enabled, ub),
             FD_YAW, in, enabled, ub)

MaxTicks == 2

\* pidController.  The caller runs the tick after pidSetTargetLooptime and
\* pidInitFilters: before them the filter function pointers are null and dT is 0.
TickRecord(r, in) ==
    [ in |-> in, enabled |-> pidStabilisationEnabled, tri |-> triMixer,
      prevEnabled |-> tick.enabled, dT |-> dT, maxVelocity |-> maxVelocity,
      raw |-> r.raw, shaped |-> r.shaped, prevShaped |-> tick.shaped,
      prevStored |-> previousSetpoint,
      setpoint |-> r.setpoint, errorRate |-> r.errorRate,
      ITerm |-> r.ITerm, ITermNew |-> r.ITermNew,
      committed |-> r.committed, prevCommitted |-> tick.committed,
      fullP |-> r.fullP, fullD |-> r.fullD,
      dAccess |-> r.dAccess,
      pScaled |-> r.pScaled, disableTPA |-> disableTPAForYaw,
      prevIn |-> tick.in, prevErrorRate |-> tick.errorRate,
      prevITerm |-> tick.ITerm, prevITermNew |-> tick.ITermNew,
      built |-> built,
      fns |-> [notch |-> dtermNotchFilterApplyFn, lpf |-> dtermLpfApplyFn,
               yaw |-> ptermYawFilterApplyFn] ]

TickDone(r, in) ==
    /\ SetCtl(r.c)
    /\ tick' = TickRecord(r, in)

pidController(in, ub, ubTwin) ==
    /\ dT > 0
    /\ dtermNotchFilterApplyFn # "NULL"
    /\ FiniteTick(in)
    /\ TickDone(ControllerTick(Ctl, in, pidStabilisationEnabled, ub), in)
    /\ twin' = IF twin.on THEN [twin EXCEPT !.c = ControllerTick(@, in, TRUE, ubTwin).c]
               ELSE twin
    /\ ticks' = ticks + 1
    /\ UNCHANGED <<flagVars, gainVars, selVars, envVars, built>>

(***************************************************************************)
(* Inputs of the model.                                                    *)
(***************************************************************************)
Snap(sp, gy, tpa, mix, sat, mode, defl) ==
    [ setpointRate |-> sp, gyroADCf |-> gy, tpaFactor |-> tpa, motorMixRange |-> mix,
      outputSaturated |-> sat, flightMode |-> mode,
      rcDeflection |-> defl, attitude |-> Zero2, angleTrim |-> Zero2 ]

Vec(r, p, y) == (FD_ROLL :> r @@ FD_PITCH :> p @@ FD_YAW :> y)
NoSat == Vec(FALSE, FALSE, FALSE)
AllSat == Vec(TRUE, TRUE, TRUE)

\* Flight: one profile (acceleration limit on roll and pitch, none on yaw),
\* one loop time, the run-time calls and the mixer's topology at any time.
FlightProfile ==
    [BaseProfile EXCEPT !.rateAccelLimit = 1, !.setpointRelaxRatio = 50,
                        !.dterm_notch_hz = 200, !.dterm_notch_cutoff = 100,
                        !.dterm_lpf_hz = 100, !.yaw_lpf_hz = 100]

Snapshots ==
    { Snap(Vec(400, -400, 400), Zero3, TpaOne, 0, NoSat, {}, Zero3),
      Snap(Vec(100, 100, 100), Zero3, TpaOne, 0, NoSat, {}, Zero3),
      Snap(Zero3, Vec(200, 200, -200), TpaOne, 0, AllSat, {}, Zero3),
      Snap(Vec(400, -400, 400), Zero3, 1, 2, NoSat, {}, Vec(1, 0, 0)),
      Snap(Vec(100, 100, 100), Zero3, TpaOne, 0, NoSat, {"ANGLE_MODE"}, Vec(1, -1, 0)),
      Snap(Vec(100, 100, 100), Zero3, TpaOne, 0, NoSat, {"HORIZON_MODE"}, Vec(1, -1, 0)) }

OobVals == {0, 800}
UbChoices ==
    IF ~triMixer THEN {UbNone}
    ELSE {[rateError |-> r, notch |-> n, lpf |-> l] :
            r \in OobVals,
            n \in IF dtermNotchFilterApplyFn = "nullFilterApply" THEN {0} ELSE OobVals,
            l \in IF dtermLpfApplyFn = "nullFilterApply" THEN {0} ELSE OobVals}

Init == InitWith(FALSE, FlightProfile)

Next ==
    \/ ticks = 0 /\ pidSetTargetLooptime(1000)
    \/ ticks = 0 /\ pidInitFilters
    \/ ticks = 0 /\ pidInitConfig
    \/ \E b \in BOOLEAN : MixerSetTri(b)
    \/ \E st \in {"PID_STABILISATION_OFF", "PID_STABILISATION_ON"} : pidStabilisationState(st)
    \/ \E in \in Snapshots, ub \in UbChoices : ticks < MaxTicks /\ pidController(in, ub, UbNone)

Spec == Init /\ [][Next]_vars


(***************************************************************************)
(* Claims checked under Spec.  `tick` holds the most recent tick: its      *)
(* inputs, the flags it ran under and its intermediate values; no action   *)
(* of Spec other than pidController writes the outputs.                    *)
(***************************************************************************)

\* C1 (as stated): a tick run with stabilisation disabled leaves the
\* integrator as the integral step left it, and the first tick after
\* re-enabling starts its integral step from that value.
C1_GatePreservesIntegrator ==
    /\ (ticks > 0 /\ ~tick.enabled) => \A a \in Axes : axisPID_I[a] = tick.committed[a]
    /\ (ticks > 1 /\ tick.enabled /\ ~tick.prevEnabled)
           => \A a \in Axes : tick.ITerm[a] = tick.prevCommitted[a]

\* C1 (amended): the gate writes 0 to axisPID_I, which is the accumulator
\* itself: after a disabled tick every integrator is 0 and the first tick
\* after re-enabling starts its integral step from 0. What the gate leaves
\* alone is the stored previous setpoint, which a disabled tick updates as an
\* enabled one does.
C1_GateClearsIntegrator ==
    /\ (ticks > 0 /\ ~tick.enabled) =>
          \A a \in Axes :
             /\ axisPID_I[a] = 0
             /\ tick.maxVelocity[a] # 0 => previousSetpoint[a] = tick.shaped[a]
    /\ (ticks > 1 /\ ~tick.prevEnabled) => \A a \in Axes : tick.ITerm[a] = 0

C1_Witness ==
    /\ ticks > 1 /\ tick.enabled /\ ~tick.prevEnabled
    /\ \E a \in Axes : tick.prevCommitted[a] # 0 /\ tick.ITerm[a] = 0 /\ axisPID_I[a] # 0

\* C2: in a tick in which the mixer reports the axis saturated, the
\* integrator does not grow in magnitude: the candidate is committed exactly
\* when it is smaller in magnitude than the integrator, otherwise the
\* integrator is kept.
C2_WindupContainment ==
    ticks > 0 =>
        \A a \in Axes :
            tick.in.outputSaturated[a] =>
                /\ ABS(tick.committed[a]) <= ABS(tick.ITerm[a])
                /\ ABS(axisPID_I[a]) <= ABS(tick.ITerm[a])
                /\ tick.committed[a] =
                      (IF ABS(tick.ITermNew[a]) < ABS(tick.ITerm[a])
                       THEN tick.ITermNew[a] ELSE tick.ITerm[a])

\* a saturated, enabled tick in which one axis unwinds and another is held
C2_Witness ==
    /\ ticks > 0 /\ tick.enabled
    /\ \E a, b \in Axes :
          /\ tick.in.outputSaturated[a] /\ tick.in.outputSaturated[b]
          /\ axisPID_I[a] # 0 /\ ABS(axisPID_I[a]) < ABS(tick.ITerm[a])
          /\ tick.ITerm[a] > 0 /\ tick.errorRate[a] < 0
          /\ ABS(tick.ITermNew[b]) > ABS(tick.ITerm[b]) /\ axisPID_I[b] = tick.ITerm[b]
          /\ tick.ITerm[b] < 0 /\ tick.errorRate[b] < 0

\* C4: after a tick run with the stabilisation flag off, P, I and D of every
\* axis are 0; after a tick run with the flag on they are what the
\* computation produced; whatever the flag was in the tick before.
C4_GateOutput ==
    ticks > 0 =>
        \A a \in Axes :
            IF tick.enabled
            THEN /\ axisPID_P[a] = tick.fullP[a]
                 /\ axisPID_I[a] = tick.committed[a]
                 /\ axisPID_D[a] = tick.fullD[a]
            ELSE axisPID_P[a] = 0 /\ axisPID_I[a] = 0 /\ axisPID_D[a] = 0

\* a disabled tick right after an enabled one, whose computation was not zero
C4_Witness ==
    /\ ticks > 1 /\ ~tick.enabled /\ tick.prevEnabled
    /\ \E a \in Axes :
          /\ tick.fullP[a] # 0 /\ tick.committed[a] # 0 /\ tick.fullD[a] # 0
          /\ axisPID_P[a] = 0 /\ axisPID_I[a] = 0 /\ axisPID_D[a] = 0

\* C5 (as stated): the shaped setpoint moves by at most maxVelocity from one
\* tick to the next, equals the raw setpoint when the raw change from the
\* previous shaped setpoint is within the limit, and the stored previous
\* setpoint is always the shaped setpoint of the last tick.
C5_StoredIsLastShaped ==
    ticks > 0 =>
        \A a \in Axes :
            /\ previousSetpoint[a] = tick.shaped[a]
            /\ (ticks > 1 /\ tick.maxVelocity[a] # 0) =>
                  /\ ABS(tick.shaped[a] - tick.prevShaped[a]) <= tick.maxVelocity[a]
                  /\ ABS(tick.raw[a] - tick.prevShaped[a]) <= tick.maxVelocity[a]
                        => tick.shaped[a] = tick.raw[a]

\* C5 (amended): on an axis whose maxVelocity is not zero the shaped setpoint
\* is within maxVelocity of the stored previous setpoint, equals the raw
\* setpoint when the raw change from the stored value is within the limit,
\* and is stored; on an axis whose maxVelocity is zero the stage is the
\* identity and the stored previous setpoint is left as it was.
C5_AccelerationLimit ==
    ticks > 0 =>
        \A a \in Axes :
            IF tick.maxVelocity[a] # 0
            THEN /\ ABS(tick.shaped[a] - tick.prevStored[a]) <= tick.maxVelocity[a]
                 /\ ABS(tick.raw[a] - tick.prevStored[a]) <= tick.maxVelocity[a]
                       => tick.shaped[a] = tick.raw[a]
                 /\ previousSetpoint[a] = tick.shaped[a]
            ELSE /\ tick.shaped[a] = tick.raw[a]
                 /\ previousSetpoint[a] = tick.prevStored[a]

\* one axis limited downwards, one axis with the stage skipped
C5_Witness ==
    /\ ticks > 1
    /\ \E a, b \in Axes :
          /\ tick.maxVelocity[a] > 0
          /\ tick.raw[a] < tick.prevStored[a] - tick.maxVelocity[a]
          /\ tick.shaped[a] = tick.prevStored[a] - tick.maxVelocity[a]
          /\ tick.maxVelocity[b] = 0 /\ tick.raw[b] # 0
          /\ previousSetpoint[b] # tick.shaped[b]

\* C6: after a tick run with the tri-mixer flag false, axisPID_D[FD_YAW] is 0.
C6_YawDZero ==
    (ticks > 0 /\ ~tick.tri) => axisPID_D[FD_YAW] = 0

\* C7: every axis for which the derivative step ran has a slot in
\* previousRateError, dtermFilterNotch and dtermFilterLpf.
C7_DerivativeSlotsExist ==
    \A a \in tick.dAccess :
        /\ a \in DOMAIN previousRateError
        /\ a \in DOMAIN dtermFilterNotch
        /\ a \in DOMAIN dtermFilterLpf


(***************************************************************************)
(* Two runs side by side: the run of the module's own variables, whose     *)
(* stabilisation flag is switched at will, and a reference run kept in     *)
(* twin.c that executes every tick with stabilisation on.  Both are given  *)
(* the same configuration, the same inputs, the same tri-mixer flag and    *)
(* the same contents of the memory behind the two-element arrays.          *)
(***************************************************************************)
TwinSnapshots ==
    { Snap(Vec(400, -400, 400), Zero3, TpaOne, 0, NoSat, {}, Zero3),
      Snap(Zero3, Vec(200, 200, -200), TpaOne, 0, AllSat, {}, Zero3) }

InitTwin == InitWith(TRUE, FlightProfile)

NextTwin ==
    \/ ticks = 0 /\ pidSetTargetLooptime(1000)
    \/ ticks = 0 /\ pidInitFilters
    \/ ticks = 0 /\ pidInitConfig
    \/ \E b \in BOOLEAN : MixerSetTri(b)
    \/ \E st \in {"PID_STABILISATION_OFF", "PID_STABILISATION_ON"} : pidStabilisationState(st)
    \/ \E in \in TwinSnapshots, ub \in UbChoices :
          ticks < MaxTicks /\ pidController(in, ub, ub)

SpecTwin == InitTwin /\ [][NextTwin]_vars

\* C8: in every tick run with stabilisation on, P and D of every axis equal
\* those of the reference run that never had stabilisation off.
C8_GateIdempotence ==
    (ticks > 0 /\ tick.enabled) =>
        \A a \in Axes :
            /\ axisPID_P[a] = twin.c.axisPID_P[a]
            /\ axisPID_D[a] = twin.c.axisPID_D[a]


(***************************************************************************)
(* Configuration: the profile the flight controller boots with is one of   *)
(* CfgProfiles; the loop time is set and the two initialisers are called   *)
(* in any order and any number of times before the first tick.  The       *)
(* cutoffs sit around the Nyquist frequencies of the two loop times, 500   *)
(* Hz at 1000 us and 800 Hz at 625 us.                                     *)
(***************************************************************************)
Looptimes == {625, 1000}

Cutoffs(p, notch, lpf, yaw, type) ==
    [p EXCEPT !.dterm_notch_hz = notch, !.dterm_notch_cutoff = notch \div 2,
              !.dterm_lpf_hz = lpf, !.yaw_lpf_hz = yaw, !.dterm_filter_type = type]

LimitedProfile == [BaseProfile EXCEPT !.rateAccelLimit = 1, !.yawRateAccelLimit = 2]

CfgProfiles ==
    { BaseProfile,
      Cutoffs(LimitedProfile, 500, 500, 500, FILTER_PT1),
      Cutoffs(LimitedProfile, 499, 499, 499, FILTER_BIQUAD),
      Cutoffs(LimitedProfile, 800, 800, 800, FILTER_FIR),
      Cutoffs(LimitedProfile, 801, 799, 799, FILTER_BIQUAD),
      Cutoffs(BaseProfile, 799, 799, 801, "FILTER_UNKNOWN"),
      [BaseProfile EXCEPT !.itermWindupPointPercent = 100],
      [BaseProfile EXCEPT !.D8 = [@ EXCEPT ![PIDLEVEL] = 0], !.setpointRelaxRatio = 0] }

CfgSnapshots ==
    { Snap(Vec(400, -400, 400), Zero3, TpaOne, 0, NoSat, {}, Zero3),
      Snap(Vec(100, 100, 100), Vec(200, 200, -200), TpaOne, 0, NoSat, {}, Zero3) }

InitCfg == \E p \in CfgProfiles : InitWith(FALSE, p)

NextCfg ==
    \/ \E t \in Looptimes : ticks = 0 /\ pidSetTargetLooptime(t)
    \/ ticks = 0 /\ pidInitFilters
    \/ ticks = 0 /\ pidInitConfig
    \/ \E st \in {"PID_STABILISATION_OFF", "PID_STABILISATION_ON"} : pidStabilisationState(st)
    \/ \E in \in CfgSnapshots : ticks < MaxTicks /\ pidController(in, UbNone, UbNone)

SpecCfg == InitCfg /\ [][NextCfg]_vars

\* the three paths' selections as pidInitFilters left them
PathCutoffs(p) == <<p.dterm_notch_hz, p.dterm_lpf_hz, p.yaw_lpf_hz>>
PathFns == <<dtermNotchFilterApplyFn, dtermLpfApplyFn, ptermYawFilterApplyFn>>

\* C3 (as stated): on each of the three paths a cutoff equal to the Nyquist
\* frequency 1/(2 x loop period) selects nullFilterApply and a cutoff one
\* below it selects a real filter.
C3_NyquistInclusive ==
    built.filters =>
        \A i \in 1..3 :
            /\ PathCutoffs(built.filtersProfile)[i] = NyquistExact(built.filtersDT)
                  => PathFns[i] = "nullFilterApply"
            /\ PathCutoffs(built.filtersProfile)[i] = NyquistExact(built.filtersDT) - 1
                  => PathFns[i] # "nullFilterApply"

\* C3 (amended): the comparison is cutoff > pidFrequencyNyquist, the Nyquist
\* frequency truncated to an integer after binary32 arithmetic (499 at 1000
\* us, 800 at 625 us).  A cutoff above that number selects nullFilterApply;
\* a non-zero cutoff equal to it or below it selects the real filter, on the
\* D-term low-pass path only when the filter type is one of PT1, BIQUAD, FIR
\* (any other type selects nullFilterApply).
C3_NyquistExclusive ==
    built.filters =>
        LET p == built.filtersProfile
            N == IF built.filtersDT = 1000 THEN 499 ELSE 800
            Real(hz) == hz # 0 /\ hz <= N
        IN  /\ built.filtersDT \in Looptimes
            /\ dtermNotchFilterApplyFn =
                  (IF Real(p.dterm_notch_hz) THEN "biquadFilterApply" ELSE "nullFilterApply")
            /\ ptermYawFilterApplyFn =
                  (IF Real(p.yaw_lpf_hz) THEN "pt1FilterApply" ELSE "nullFilterApply")
            /\ dtermLpfApplyFn =
                  (CASE Real(p.dterm_lpf_hz) /\ p.dterm_filter_type = FILTER_PT1 -> "pt1FilterApply"
                     [] Real(p.dterm_lpf_hz) /\ p.dterm_filter_type = FILTER_BIQUAD -> "biquadFilterApply"
                     [] Real(p.dterm_lpf_hz) /\ p.dterm_filter_type = FILTER_FIR -> "firFilterDenoiseUpdate"
                     [] OTHER -> "nullFilterApply")

\* filters built at 625 us with every cutoff at 800 Hz: all three paths real
C3_Witness ==
    /\ built.filters /\ built.filtersDT = 625
    /\ PathCutoffs(built.filtersProfile) = <<800, 800, 800>>
    /\ PathFns = <<"biquadFilterApply", "firFilterDenoiseUpdate", "pt1FilterApply">>

\* C9: after pidInitConfig, for every profile, ITermWindupPointInv and the
\* horizon transition are finite (no division by zero was performed).
C9_DivisionsGuarded ==
    built.config => IsFinite(ITermWindupPointInv) /\ IsFinite(horizonTransition)

\* C10 (as stated): in every tick run after both initialisers, maxVelocity is
\* the acceleration limit scaled by the dT the tick uses and the filter
\* selection is the one the Nyquist test gives for that dT.
C10_DerivedFromTickPeriod ==
    (ticks > 0 /\ tick.built.config /\ tick.built.filters) =>
        /\ \A a \in Axes : tick.maxVelocity[a] = MaxVelocityOf(pidProfile, a, tick.dT)
        /\ tick.fns.notch # "nullFilterApply" <=> NotchSelected(pidProfile, tick.dT)
        /\ tick.fns.yaw # "nullFilterApply" <=> YawLpfSelected(pidProfile, tick.dT)

\* C10 (amended): pidSetTargetLooptime changes dT and nothing else.  A tick
\* uses the maxVelocity computed from the dT in force at the last
\* pidInitConfig and the filter selection made with the dT in force at the
\* last pidInitFilters; these are the tick's own dT only when each
\* initialiser was called after the last change of the loop time.
C10_DerivedFromInitPeriod ==
    /\ built.config =>
          \A a \in Axes :
              maxVelocity[a] * 1000 =
                  RateOne * built.configDT *
                     (IF a = FD_YAW THEN built.configProfile.yawRateAccelLimit
                                    ELSE built.configProfile.rateAccelLimit)
    /\ (ticks > 0 /\ tick.built.config) =>
          \A a \in Axes :
              tick.maxVelocity[a] * 1000 =
                  RateOne * tick.built.configDT *
                     (IF a = FD_YAW THEN pidProfile.yawRateAccelLimit
                                    ELSE pidProfile.rateAccelLimit)
    /\ (ticks > 0 /\ tick.built.filters) =>
          /\ tick.fns.notch # "nullFilterApply"
                <=> NotchSelected(pidProfile, tick.built.filtersDT)
          /\ tick.fns.yaw # "nullFilterApply"
                <=> YawLpfSelected(pidProfile, tick.built.filtersDT)

\* a tick at 1000 us with maxVelocity and filters derived at 625 us
C10_Witness ==
    /\ ticks > 0 /\ tick.dT = 1000
    /\ tick.built.config /\ tick.built.configDT = 625
    /\ tick.built.filters /\ tick.built.filtersDT = 625
    /\ tick.maxVelocity[FD_ROLL] = 125
    /\ MaxVelocityOf(pidProfile, FD_ROLL, tick.dT) = 200
    /\ tick.fns.notch = "biquadFilterApply" /\ ~NotchSelected(pidProfile, tick.dT)


\* C11 (as stated): in every tick run after pidInitConfig, whether yaw's P
\* term is exempt from the throttle attenuation and whether yaw's D term is
\* computed are both decided by the tri-mixer flag captured at the last
\* pidInitConfig.
C11_FlagSampledAtConfig ==
    (ticks > 0 /\ tick.built.config) =>
        /\ tick.disableTPA <=> tick.built.configTri
        /\ FD_YAW \in tick.dAccess <=> tick.built.configTri

\* C11 (amended): the exemption of yaw's P term from the throttle
\* attenuation is decided by disableTPAForYaw, the tri-mixer flag captured at
\* the last pidInitConfig; whether yaw's D term is computed is decided by the
\* tri-mixer flag read during the tick itself.
C11_FlagSampledTwice ==
    ticks > 0 =>
        /\ tick.built.config => (tick.disableTPA <=> tick.built.configTri)
        /\ tick.pScaled[FD_YAW] =
              Kp[FD_YAW] * tick.errorRate[FD_YAW]
                 * (IF tick.disableTPA THEN TpaOne ELSE tick.in.tpaFactor)
        /\ FD_YAW \in tick.dAccess <=> tick.tri

\* a tick with the tri-mixer on that was configured with it off: yaw's P
\* term is attenuated and yaw's D term is computed
C11_Witness ==
    /\ ticks > 0 /\ tick.built.config /\ ~tick.built.configTri /\ tick.tri
    /\ ~tick.disableTPA /\ tick.in.tpaFactor # TpaOne
    /\ tick.pScaled[FD_YAW] # 0
    /\ tick.pScaled[FD_YAW] = Kp[FD_YAW] * tick.errorRate[FD_YAW] * tick.in.tpaFactor
    /\ FD_YAW \in tick.dAccess


(***************************************************************************)
(* Run: the calls made while flying.  The loop time, the initialisers, the *)
(* integral accelerator and the expected gyro error are set before the     *)
(* first tick; the stabilisation flag is switched at any time.             *)
(* The profile has no acceleration limit, so a constant setpoint is a      *)
(* constant error; the mixer is never saturated and the motor mix range    *)
(* is 0 or 0.75.                                                           *)
(***************************************************************************)
RunSnapshots ==
    { Snap(Vec(400, -400, 400), Zero3, TpaOne, 0, NoSat, {}, Zero3),
      Snap(Vec(400, -400, 400), Zero3, TpaOne, 3, NoSat, {}, Zero3),
      Snap(Vec(-400, 400, 100), Zero3, TpaOne, 0, NoSat, {}, Zero3) }

RunProfile == [FlightProfile EXCEPT !.rateAccelLimit = 0]

InitRun == InitWith(FALSE, RunProfile)

NextRun ==
    \/ ticks = 0 /\ pidSetTargetLooptime(1000)
    \/ ticks = 0 /\ pidInitFilters
    \/ ticks = 0 /\ pidInitConfig
    \/ \E x \in {1, 2} : ticks = 0 /\ pidSetItermAccelerator(x)
    \/ \E e \in {0, 100} : ticks = 0 /\ pidSetExpectedGyroError(FD_ROLL, e)
    \/ \E st \in {"PID_STABILISATION_OFF", "PID_STABILISATION_ON"} : pidStabilisationState(st)
    \/ \E in \in RunSnapshots : ticks < MaxTicks /\ pidController(in, UbNone, UbNone)

SpecRun == InitRun /\ [][NextRun]_vars

SameSign(x, y) == (x >= 0 /\ y >= 0) \/ (x <= 0 /\ y <= 0)

\* the integral step of the last tick, and of the tick before it
TickGain(a) == tick.ITermNew[a] - tick.ITerm[a]
PrevTickGain(a) == tick.prevITermNew[a] - tick.prevITerm[a]

\* the last tick had the error and the motor mix range of the tick before
\* it, both ticks enabled
RepeatTick ==
    /\ ticks > 1 /\ tick.enabled /\ tick.prevEnabled
    /\ tick.errorRate = tick.prevErrorRate
    /\ tick.in.motorMixRange = tick.prevIn.motorMixRange

ResetSnapshots ==
    { Snap(Vec(400, -400, 400), Zero3, TpaOne, 0, NoSat, {}, Zero3),
      Snap(Vec(100, 100, 100), Vec(200, 200, -200), TpaOne, 0, NoSat, {}, Zero3) }

InitReset == InitWith(FALSE, FlightProfile)

NextReset ==
    \/ ticks = 0 /\ pidSetTargetLooptime(1000)
    \/ ticks = 0 /\ pidInitFilters
    \/ ticks = 0 /\ pidInitConfig
    \/ \E e \in {0, 100} : ticks = 0 /\ pidSetExpectedGyroError(FD_ROLL, e)
    \/ \E st \in {"PID_STABILISATION_OFF", "PID_STABILISATION_ON"} : pidStabilisationState(st)
    \/ pidResetErrorGyroState
    \/ \E axis \in Axes : pidResetErrorGyroAxis(axis)
    \/ \E in \in ResetSnapshots : ticks < MaxTicks /\ pidController(in, UbNone, UbNone)

SpecReset == InitReset /\ [][NextReset]_vars

\* what neither reset touches
ResetFrame ==
    UNCHANGED <<previousSetpoint, previousRateError, expectedGyroError,
                pidStabilisationEnabled, gainVars, selVars>>

\* C13: pidResetErrorGyroState sets the integrator of all three axes to 0;
\* pidResetErrorGyroAxis(a) sets the integrator of axis a to 0 and leaves the
\* integrators of the other axes as they were; neither changes the previous
\* setpoint, the previous rate error, the expected gyro error, the
\* stabilisation flag, the derived gains or the filter selection.
C13_ResetFrame ==
    [][ /\ pidResetErrorGyroState =>
              (ResetFrame /\ \A a \in Axes : axisPID_I'[a] = 0)
        /\ \A a \in Axes :
              pidResetErrorGyroAxis(a) =>
                  /\ ResetFrame
                  /\ axisPID_I'[a] = 0
                  /\ \A b \in Axes \ {a} : axisPID_I'[b] = axisPID_I[b] ]_vars

\* after an enabled tick one axis was reset: its integrator is 0, another
\* axis still holds what the tick committed, and the previous values, the
\* bias and the gains are those the tick left
C13_Witness ==
    /\ ticks > 0 /\ tick.enabled /\ pidStabilisationEnabled
    /\ \E a, b \in Axes :
          /\ a # b
          /\ tick.committed[a] # 0 /\ axisPID_I[a] = 0
          /\ tick.committed[b] # 0 /\ axisPID_I[b] = tick.committed[b]
    /\ previousSetpoint[FD_ROLL] # 0 /\ previousRateError[FD_ROLL] # 0
    /\ expectedGyroError[FD_ROLL] # 0 /\ Ki[FD_ROLL] # 0
    /\ dtermNotchFilterApplyFn = "biquadFilterApply"


(***************************************************************************)
(* Reconfiguration: the profile is rewritten and pidInitFilters is called  *)
(* again at any time, also between ticks, when the filter objects hold the *)
(* state the ticks left in them.                                           *)
(***************************************************************************)
FiltProfiles ==
    { FlightProfile,
      [FlightProfile EXCEPT !.dterm_filter_type = FILTER_BIQUAD],
      [FlightProfile EXCEPT !.dterm_filter_type = FILTER_FIR, !.yaw_lpf_hz = 0],
      [FlightProfile EXCEPT !.dterm_filter_type = "FILTER_UNKNOWN", !.dterm_notch_hz = 0] }

FiltSnapshots ==
    { Snap(Vec(400, -400, 400), Vec(200, 200, -200), TpaOne, 0, NoSat, {}, Zero3) }

InitFilt == InitWith(FALSE, FlightProfile)

NextFilt ==
    \/ ticks = 0 /\ pidSetTargetLooptime(1000)
    \/ ticks = 0 /\ pidInitConfig
    \/ ticks = 0 /\ pidStabilisationState("PID_STABILISATION_ON")
    \/ \E p \in FiltProfiles : ProfileWrite(p)
    \/ pidInitFilters
    \/ \E in \in FiltSnapshots : ticks < MaxTicks /\ pidController(in, UbNone, UbNone)

SpecFilt == InitFilt /\ [][NextFilt]_vars

\* cutoff hz is in use at the loop period dT
CutoffInUse(hz) == hz # 0 /\ hz <= pidFrequencyNyquist(dT)

\* the state pidInitFilters leaves, read from the profile and the period
NotchPaired ==
    IF CutoffInUse(pidProfile.dterm_notch_hz)
    THEN /\ dtermNotchFilterApplyFn = "biquadFilterApply"
         /\ \A a \in RollPitch :
               /\ dtermFilterNotch[a] = AddrOf("biquadFilterNotch", a)
               /\ biquadFilterNotch[a] =
                     biquadFilterInit(pidProfile.dterm_notch_hz, "FILTER_NOTCH")
    ELSE dtermNotchFilterApplyFn = "nullFilterApply"

LpfPaired ==
    IF ~CutoffInUse(pidProfile.dterm_lpf_hz) THEN dtermLpfApplyFn = "nullFilterApply"
    ELSE CASE pidProfile.dterm_filter_type = FILTER_PT1 ->
                /\ dtermLpfApplyFn = "pt1FilterApply"
                /\ \A a \in RollPitch :
                      /\ dtermFilterLpf[a] = AddrOf("pt1Filter", a)
                      /\ pt1Filter[a] = pt1FilterInit(pidProfile.dterm_lpf_hz, dT)
           [] pidProfile.dterm_filter_type = FILTER_BIQUAD ->
                /\ dtermLpfApplyFn = "biquadFilterApply"
                /\ \A a \in RollPitch :
                      /\ dtermFilterLpf[a] = AddrOf("biquadFilter", a)
                      /\ biquadFilter[a] =
                            biquadFilterInit(pidProfile.dterm_lpf_hz, "FILTER_LPF")
           [] pidProfile.dterm_filter_type = FILTER_FIR ->
                /\ dtermLpfApplyFn = "firFilterDenoiseUpdate"
                /\ \A a \in RollPitch :
                      /\ dtermFilterLpf[a] = AddrOf("denoisingFilter", a)
                      /\ denoisingFilter[a] = firFilterDenoiseInit(pidProfile.dterm_lpf_hz)
           [] OTHER -> dtermLpfApplyFn = "nullFilterApply"

YawPaired ==
    IF CutoffInUse(pidProfile.yaw_lpf_hz)
    THEN /\ ptermYawFilterApplyFn = "pt1FilterApply"
         /\ ptermYawFilter = AddrOf("pt1FilterYaw", 0)
         /\ pt1FilterYaw = pt1FilterInit(pidProfile.yaw_lpf_hz, dT)
    ELSE ptermYawFilterApplyFn = "nullFilterApply"

\* C14: every pidInitFilters call leaves each path's selection as the
\* profile and the loop period of that call give it: cutoff 0 or an
\* unrecognised filter type is nullFilterApply, an enabled notch is the
\* biquad, an enabled yaw low-pass is the one-pole filter; and every apply
\* function other than nullFilterApply is paired, for roll and pitch, with
\* the object of its own type, initialised in that call.  No other step
\* changes the selection.
C14_SelectionPaired ==
    [][ /\ pidInitFilters => (NotchPaired /\ LpfPaired /\ YawPaired)'
        /\ ~pidInitFilters => UNCHANGED selVars ]_vars

\* filters rebuilt as biquad after ticks ran on the one-pole filter: the
\* low-pass pointers are on fresh biquad objects, the one-pole objects still
\* hold the state of the ticks
C14_Witness ==
    /\ ticks > 0 /\ built.filters
    /\ tick.fns.lpf = "pt1FilterApply"
    /\ dtermLpfApplyFn = "biquadFilterApply"
    /\ \A a \in RollPitch :
          /\ dtermFilterLpf[a] = AddrOf("biquadFilter", a)
          /\ biquadFilter[a] = biquadFilterInit(pidProfile.dterm_lpf_hz, "FILTER_LPF")
          /\ pt1Filter[a].state # 0


\* the angle error of pidLevel for the last tick's inputs, in 1/AngleOne degree
TickErrorAngle(a) ==
    constrainf((AngleOne * pidProfile.levelSensitivity * tick.in.rcDeflection[a]) \div DeflOne,
               -(AngleOne * pidProfile.levelAngleLimit),
               AngleOne * pidProfile.levelAngleLimit)
       - (tick.in.attitude[a] - tick.in.angleTrim[a])

\* C15: in every tick the acceleration limit comes first and the level blend
\* works on its result.  For yaw the setpoint of the error computation is
\* the acceleration-limited rate setpoint in every flight mode.  For roll and
\* pitch it is errorAngle * levelGain in angle mode, whatever the rate
\* setpoint; the acceleration-limited setpoint plus the horizon term in
\* horizon mode; the acceleration-limited setpoint with neither mode.
C15_SetpointShaping ==
    ticks > 0 =>
        \A a \in Axes :
            /\ tick.errorRate[a] =
                  tick.setpoint[a] - tick.in.gyroADCf[a] + expectedGyroError[a]
            /\ tick.maxVelocity[a] = 0 => tick.shaped[a] = tick.raw[a]
            /\ tick.maxVelocity[a] # 0 => previousSetpoint[a] = tick.shaped[a]
            /\ CASE a = FD_YAW -> tick.setpoint[a] = tick.shaped[a]
                 [] a # FD_YAW /\ "ANGLE_MODE" \in tick.in.flightMode ->
                      tick.setpoint[a] =
                         (RateOne * TickErrorAngle(a) * levelGain) \div (AngleOne * 10)
                 [] a # FD_YAW /\ tick.in.flightMode = {"HORIZON_MODE"} ->
                      \E strength \in 0..DeflOne :
                         tick.setpoint[a] =
                            tick.shaped[a]
                              + (RateOne * TickErrorAngle(a) * horizonGain * strength)
                                   \div (AngleOne * 10 * DeflOne)
                 [] OTHER -> tick.setpoint[a] = tick.shaped[a]

\* an angle-mode tick in which pitch was acceleration-limited and then
\* replaced by the angle setpoint, and yaw kept its rate setpoint
C15_Witness ==
    /\ ticks > 1 /\ "ANGLE_MODE" \in tick.in.flightMode
    /\ tick.shaped[FD_PITCH] # tick.raw[FD_PITCH]
    /\ previousSetpoint[FD_PITCH] = tick.shaped[FD_PITCH]
    /\ tick.setpoint[FD_PITCH] # tick.shaped[FD_PITCH]
    /\ tick.setpoint[FD_PITCH] # 0
    /\ tick.setpoint[FD_YAW] = tick.raw[FD_YAW] /\ tick.raw[FD_YAW] # 0


\* stick positions for calcHorizonLevelStrength: roll and pitch deflection
\* each -1, -0.5, 0, 0.5 or 1
HorizonInputs ==
    { Snap(Zero3, Zero3, TpaOne, 0, NoSat, {"HORIZON_MODE"}, Vec(r, p, 0)) :
        r \in -DeflOne..DeflOne, p \in -DeflOne..DeflOne }

MostDeflected(in) == MAX(getRcDeflectionAbs(in, FD_ROLL), getRcDeflectionAbs(in, FD_PITCH))

\* C16: whatever pidInitConfig left in horizonTransition and wherever the
\* sticks are, calcHorizonLevelStrength returns a value in [0, 1]; it is 0
\* when horizonTransition is not positive, otherwise it is
\* 1 - max(|roll deflection|, |pitch deflection|) * horizonTransition clamped
\* to [0, 1], and it does not increase with the larger deflection.
C16_HorizonStrength ==
    \A in \in HorizonInputs :
        /\ calcHorizonLevelStrength(in).k = "fin"
        /\ calcHorizonLevelStrength(in).v \in 0..DeflOne
        /\ (horizonTransition.k = "fin" /\ horizonTransition.v <= 0)
              => calcHorizonLevelStrength(in).v = 0
        /\ (horizonTransition.k = "fin" /\ horizonTransition.v > 0)
              => calcHorizonLevelStrength(in).v =
                    constrainf(DeflOne - MostDeflected(in) * horizonTransition.v, 0, DeflOne)
        /\ \A other \in HorizonInputs :
              MostDeflected(other) >= MostDeflected(in)
                 => calcHorizonLevelStrength(other).v <= calcHorizonLevelStrength(in).v


\* the six orders in which the loop body could visit the axes
AxisOrders ==
    { <<FD_ROLL, FD_PITCH, FD_YAW>>, <<FD_ROLL, FD_YAW, FD_PITCH>>,
      <<FD_PITCH, FD_ROLL, FD_YAW>>, <<FD_PITCH, FD_YAW, FD_ROLL>>,
      <<FD_YAW, FD_ROLL, FD_PITCH>>, <<FD_YAW, FD_PITCH, FD_ROLL>> }

\* the loop body of pidController run once per axis in the given order
LoopInOrder(c, in, enabled, order, ub) ==
    AxisStep(AxisStep(AxisStep(Start(c), order[1], in, enabled, ub),
                      order[2], in, enabled, ub),
             order[3], in, enabled, ub)

====
